---- MODULE Spec2Model ----
(***************************************************************************)
(* Model of twitch_api_client/client.py: the TwitchAPIClient class, its    *)
(* constructor, the generic request operation _make_request and the named  *)
(* wrappers built on it.  The HTTP transport (requests.Session.get and the *)
(* Response object it returns) is the environment: each of the three calls *)
(* the client makes into it (session.get, response.raise_for_status,       *)
(* response.json) either returns or raises, chosen nondeterministically.   *)
(***************************************************************************)
EXTENDS Integers, Sequences, FiniteSets, TLC

(***************************************************************************)
(* Bounds of the model.                                                    *)
(***************************************************************************)
\* number of calls made on the client in one behaviour
MaxCalls == 2

(***************************************************************************)
(* Python values.                                                          *)
(***************************************************************************)
PyNone == [t |-> "None"]
PyStr(s) == [t |-> "str", s |-> s]

\* Python truthiness of a str-or-None value: None and "" are falsy.
Truthy(v) == v.t = "str" /\ v.s # ""

\* an attribute that has not been assigned on the instance
Unset == [t |-> "unset"]

\* dict.update(other): keys of other overwrite, the rest is kept
DictUpdate(d, other) ==
    [k \in (DOMAIN d) \cup (DOMAIN other) |->
        IF k \in DOMAIN other THEN other[k] ELSE d[k]]

(***************************************************************************)
(* JSON values a response body can decode to.                              *)
(***************************************************************************)
JNull == [t |-> "null"]
JBool(b) == [t |-> "bool", b |-> b]
JNum(n) == [t |-> "num", n |-> n]
JStr(s) == [t |-> "str", s |-> s]
JArr(a) == [t |-> "array", a |-> a]
JObj(o) == [t |-> "object", o |-> o]

EmptyDict == << >>

\* Python truthiness of a decoded JSON value
JTruthy(j) ==
    CASE j.t = "null" -> FALSE
      [] j.t = "bool" -> j.b
      [] j.t = "num" -> j.n # 0
      [] j.t = "str" -> j.s # ""
      [] j.t = "array" -> j.a # << >>
      [] j.t = "object" -> j.o # EmptyDict

\* a payload of the shape the service returns
StreamerInfo ==
    JObj([user |-> JObj([displayName |-> JStr("xQc"), stream |-> JNull])])

\* decoded bodies the transport may deliver: the falsy values and a payload
Bodies ==
    { JNull, JBool(FALSE), JNum(0), JArr(<< >>), JObj(EmptyDict),
      StreamerInfo }

(***************************************************************************)
(* Exceptions.  An exception is its class and its text (str(e)).           *)
(***************************************************************************)
Exc(cls, msg) == [cls |-> cls, msg |-> msg]
NoExc == [cls |-> "none", msg |-> ""]

\* isinstance(e, requests.exceptions.RequestException)
IsRequestException(e) ==
    e.cls \in {"RequestException", "ConnectionError", "Timeout", "HTTPError",
               "RequestsJSONDecodeError"}

\* isinstance(e, json.JSONDecodeError); requests.exceptions.JSONDecodeError
\* (requests >= 2.27) derives from both RequestException and
\* json.JSONDecodeError
IsJSONDecodeError(e) ==
    e.cls \in {"JSONDecodeError", "RequestsJSONDecodeError"}

ValueError(msg) == Exc("ValueError", msg)
TwitchAPIError(msg) == Exc("TwitchAPIError", msg)

\* outcome of an operation: a returned value or a raised exception
Return(v) == [tag |-> "return", value |-> v]
Raise(e) == [tag |-> "raise", exc |-> e]
NoOutcome == [tag |-> "none"]

(***************************************************************************)
(* The transport's behaviour during one call.                              *)
(***************************************************************************)
\* what session.get can raise: connection-level failures
GetRaises ==
    { Exc("ConnectionError", "Connection refused"),
      Exc("Timeout", "Read timed out") }

\* what response.raise_for_status can raise: HTTPError for an error status
\* (requests), or whatever a mocked response is told to raise
StatusRaises ==
    { Exc("HTTPError", "404 Client Error: Not Found"),
      Exc("Exception", "HTTP Error") }

\* what response.json can raise on an undecodable body: json.JSONDecodeError,
\* requests.exceptions.JSONDecodeError (requests >= 2.27), or a ValueError
\* that is neither (simplejson under requests < 2.27)
JsonRaises ==
    { Exc("JSONDecodeError", "Invalid JSON: line 1 column 1 (char 0)"),
      Exc("RequestsJSONDecodeError", "Expecting value: line 1 column 1 (char 0)"),
      Exc("SimplejsonJSONDecodeError", "Expecting value: line 1 column 1 (char 0)") }

NoBody == [raises |-> NoExc, value |-> JNull]

\* response.json(): the decoded value, or the exception it raises
JsonResults ==
    { [raises |-> NoExc, value |-> b] : b \in Bodies } \cup
    { [raises |-> e, value |-> JNull] : e \in JsonRaises }

\* bodies carried by a response whose status check fails: a payload, a falsy
\* JSON value and an undecodable body
ErrorBodies ==
    { j \in JsonResults :
        \/ j.raises.cls = "JSONDecodeError"
        \/ j.raises = NoExc /\ j.value \in {StreamerInfo, JObj(EmptyDict)} }

\* one exchange: session.get raises, or it returns a response whose
\* raise_for_status and json behave as given
Envs ==
    { [get |-> e, status |-> NoExc, json |-> NoBody] : e \in GetRaises } \cup
    { [get |-> NoExc, status |-> NoExc, json |-> j] : j \in JsonResults } \cup
    { [get |-> NoExc, status |-> s, json |-> j] :
        s \in StatusRaises, j \in ErrorBodies }

(***************************************************************************)
(* TwitchAPIClient                                                         *)
(***************************************************************************)
BASE_URL == "https://twitch-api8.p.rapidapi.com"
RAPIDAPI_HOST == "twitch-api8.p.rapidapi.com"

\* a fresh instance, before __init__ has assigned anything
NewObject == [rapidapi_key |-> Unset, headers |-> Unset, session |-> Unset]

\* requests.Session(): a session with the library's default headers
DefaultSessionHeaders == ("User-Agent" :> PyStr("python-requests"))
NewSession == [headers |-> DefaultSessionHeaders]

\* __init__ testing "rapidapi_key is None" instead of "not rapidapi_key"
init_NoneOnly(rapidapi_key) ==
    IF rapidapi_key = PyNone
    THEN [outcome |-> Raise(ValueError("RapidAPI key is required")),
          self |-> NewObject]
    ELSE LET s1 == [NewObject EXCEPT !.rapidapi_key = rapidapi_key]
             s2 == [s1 EXCEPT !.headers =
                        ("X-RapidAPI-Key" :> s1.rapidapi_key) @@
                        ("X-RapidAPI-Host" :> PyStr(RAPIDAPI_HOST))]
             s3 == [s2 EXCEPT !.session = NewSession]
             s4 == [s3 EXCEPT !.session.headers =
                        DictUpdate(s3.session.headers, s3.headers)]
         IN [outcome |-> Return(PyNone), self |-> s4]

\* __init__ putting the base URL, scheme included, in the host header
init_HostIsBaseUrl(rapidapi_key) ==
    IF ~Truthy(rapidapi_key)
    THEN [outcome |-> Raise(ValueError("RapidAPI key is required")),
          self |-> NewObject]
    ELSE LET s1 == [NewObject EXCEPT !.rapidapi_key = rapidapi_key]
             s2 == [s1 EXCEPT !.headers =
                        ("X-RapidAPI-Key" :> s1.rapidapi_key) @@
                        ("X-RapidAPI-Host" :> PyStr(BASE_URL))]
             s3 == [s2 EXCEPT !.session = NewSession]
             s4 == [s3 EXCEPT !.session.headers =
                        DictUpdate(s3.session.headers, s3.headers)]
         IN [outcome |-> Return(PyNone), self |-> s4]

\* TwitchAPIClient.__init__(self, rapidapi_key)
__init__(rapidapi_key) ==
    IF ~Truthy(rapidapi_key)
    THEN [outcome |-> Raise(ValueError("RapidAPI key is required")),
          self |-> NewObject]
    ELSE LET s1 == [NewObject EXCEPT !.rapidapi_key = rapidapi_key]
             s2 == [s1 EXCEPT !.headers =
                        ("X-RapidAPI-Key" :> s1.rapidapi_key) @@
                        ("X-RapidAPI-Host" :> PyStr(RAPIDAPI_HOST))]
             s3 == [s2 EXCEPT !.session = NewSession]
             s4 == [s3 EXCEPT !.session.headers =
                        DictUpdate(s3.session.headers, s3.headers)]
         IN [outcome |-> Return(PyNone), self |-> s4]

\* the try block without the call of response.raise_for_status()
TryBody_NoStatusCheck(env) ==
    IF env.get # NoExc THEN Raise(env.get)
    ELSE IF env.json.raises # NoExc THEN Raise(env.json.raises)
    ELSE Return(env.json.value)

\* the try block treating a falsy decoded value as a failure
\* ("data = response.json(); if not data: raise TwitchAPIError(...)")
TryBody_FalsyIsError(env) ==
    IF env.get # NoExc THEN Raise(env.get)
    ELSE IF env.status # NoExc THEN Raise(env.status)
    ELSE IF env.json.raises # NoExc THEN Raise(env.json.raises)
    ELSE IF ~JTruthy(env.json.value)
         THEN Raise(TwitchAPIError("Empty API response"))
    ELSE Return(env.json.value)

\* the body of the try block of _make_request:
\*   response = self.session.get(url, params=params)
\*   response.raise_for_status()
\*   return response.json()
TryBody(env) ==
    IF env.get # NoExc THEN Raise(env.get)
    ELSE IF env.status # NoExc THEN Raise(env.status)
    ELSE IF env.json.raises # NoExc THEN Raise(env.json.raises)
    ELSE Return(env.json.value)

\* the handlers without the "except json.JSONDecodeError" clause
Handlers_NoDecodeClause(r) ==
    IF r.tag # "raise" THEN r
    ELSE IF IsRequestException(r.exc)
         THEN Raise(TwitchAPIError("API request failed: " \o r.exc.msg))
    ELSE r

\* the handlers returning None for an undecodable body instead of raising
Handlers_ReturnsNone(r) ==
    IF r.tag # "raise" THEN r
    ELSE IF IsRequestException(r.exc)
         THEN Raise(TwitchAPIError("API request failed: " \o r.exc.msg))
    ELSE IF IsJSONDecodeError(r.exc)
         THEN Return(JNull)
    ELSE r

\* the handlers dropping the text of the cause from the request-failed message
Handlers_NoCause(r) ==
    IF r.tag # "raise" THEN r
    ELSE IF IsRequestException(r.exc)
         THEN Raise(TwitchAPIError("API request failed"))
    ELSE IF IsJSONDecodeError(r.exc)
         THEN Raise(TwitchAPIError("Failed to decode API response"))
    ELSE r

\* the handlers with the two except clauses in the other order
Handlers_DecodeFirst(r) ==
    IF r.tag # "raise" THEN r
    ELSE IF IsJSONDecodeError(r.exc)
         THEN Raise(TwitchAPIError("Failed to decode API response"))
    ELSE IF IsRequestException(r.exc)
         THEN Raise(TwitchAPIError("API request failed: " \o r.exc.msg))
    ELSE r

\* the except clauses of _make_request, tried in order; an exception no
\* clause matches propagates unchanged
Handlers(r) ==
    IF r.tag # "raise" THEN r
    ELSE IF IsRequestException(r.exc)
         THEN Raise(TwitchAPIError("API request failed: " \o r.exc.msg))
    ELSE IF IsJSONDecodeError(r.exc)
         THEN Raise(TwitchAPIError("Failed to decode API response"))
    ELSE r

\* one retry of session.get after a connection-level failure
GetsIssued_Retry(env) == IF env.get # NoExc THEN 2 ELSE 1

\* number of times _make_request calls self.session.get
GetsIssued(env) == 1

\* _make_request merging the call's parameters into the session's headers
make_request_UpdatesHeaders(self, endpoint, params, env) ==
    LET url == BASE_URL \o "/" \o endpoint
    IN [outcome |-> Handlers(TryBody(env)),
        get |-> [url |-> url, params |-> params,
                 headers |-> self.session.headers],
        gets |-> GetsIssued(env),
        self |-> [self EXCEPT !.session.headers =
                      DictUpdate(self.session.headers, params)]]

\* _make_request building the URL without the path separator
make_request_NoSeparator(self, endpoint, params, env) ==
    LET url == BASE_URL \o endpoint
    IN [outcome |-> Handlers(TryBody(env)),
        get |-> [url |-> url, params |-> params,
                 headers |-> self.session.headers],
        gets |-> GetsIssued(env),
        self |-> self]

\* TwitchAPIClient._make_request(self, endpoint, params): its outcome, the
\* GET it issues, and the instance afterwards
_make_request(self, endpoint, params, env) ==
    LET url == BASE_URL \o "/" \o endpoint
    IN [outcome |-> Handlers(TryBody(env)),
        get |-> [url |-> url, params |-> params,
                 headers |-> self.session.headers],
        gets |-> GetsIssued(env),
        self |-> self]

(***************************************************************************)
(* The named wrappers: the _make_request call each one forwards to.        *)
(***************************************************************************)
\* TwitchAPIClient.get_channel_panels(self, channel)
get_channel_panels(channel) ==
    [endpoint |-> "get_channel_panels", params |-> [channel |-> channel]]

\* TwitchAPIClient.get_viewer_card(self, channel, username)
get_viewer_card(channel, username) ==
    [endpoint |-> "get_viewer_card",
     params |-> [channel |-> channel, username |-> username]]

\* TwitchAPIClient.get_streamer_info(self, channel)
get_streamer_info(channel) ==
    [endpoint |-> "get_streamer_info", params |-> [channel |-> channel]]

\* TwitchAPIClient.get_channel_videos(self, channel)
get_channel_videos(channel) ==
    [endpoint |-> "get_channel_videos", params |-> [channel |-> channel]]

\* TwitchAPIClient.get_stream_viewers(self, channel)
get_stream_viewers(channel) ==
    [endpoint |-> "get_stream_viewers", params |-> [channel |-> channel]]

\* TwitchAPIClient.get_user_id(self, channel)
get_user_id(channel) ==
    [endpoint |-> "get_user_id", params |-> [channel |-> channel]]

\* TwitchAPIClient.get_channel_points_context(self, channel)
get_channel_points_context(channel) ==
    [endpoint |-> "get_channel_points_context", params |-> [channel |-> channel]]

\* TwitchAPIClient.get_chat_restrictions(self, channel)
get_chat_restrictions(channel) ==
    [endpoint |-> "get_chat_restrictions", params |-> [channel |-> channel]]

\* get_pinned_chat forwarding to the endpoint of the wrapper above it
get_pinned_chat_WrongEndpoint(channel) ==
    [endpoint |-> "get_chat_restrictions", params |-> [channel |-> channel]]

\* TwitchAPIClient.get_pinned_chat(self, channel)
get_pinned_chat(channel) ==
    [endpoint |-> "get_pinned_chat", params |-> [channel |-> channel]]

\* TwitchAPIClient.get_channel_goals(self, channel)
get_channel_goals(channel) ==
    [endpoint |-> "get_channel_goals", params |-> [channel |-> channel]]

\* TwitchAPIClient.get_channel_leaderboards(self, channel)
get_channel_leaderboards(channel) ==
    [endpoint |-> "get_channel_leaderboards", params |-> [channel |-> channel]]

\* get_stream_tags forwarding to the endpoint of the wrapper above it
get_stream_tags_WrongEndpoint(channel) ==
    [endpoint |-> "get_channel_leaderboards", params |-> [channel |-> channel]]

\* TwitchAPIClient.get_stream_tags(self, channel)
get_stream_tags(channel) ==
    [endpoint |-> "get_stream_tags", params |-> [channel |-> channel]]

\* a wrapper swallowing the error and returning an empty payload instead
WrapperResult_Swallow(r) ==
    IF r.tag = "raise" THEN Return(JObj(EmptyDict)) ELSE r

\* "return self._make_request(...)": what a wrapper does with the outcome
\* of the call it forwards to
WrapperResult(r) == r

\* the named wrappers the class defines, each with the endpoint it is bound to
Wrappers ==
    { [name |-> "get_channel_panels",
       endpoint |-> get_channel_panels("xQc").endpoint],
      [name |-> "get_viewer_card",
       endpoint |-> get_viewer_card("xQc", "bob").endpoint],
      [name |-> "get_streamer_info",
       endpoint |-> get_streamer_info("xQc").endpoint],
      [name |-> "get_channel_videos",
       endpoint |-> get_channel_videos("xQc").endpoint],
      [name |-> "get_stream_viewers",
       endpoint |-> get_stream_viewers("xQc").endpoint],
      [name |-> "get_user_id",
       endpoint |-> get_user_id("xQc").endpoint],
      [name |-> "get_channel_points_context",
       endpoint |-> get_channel_points_context("xQc").endpoint],
      [name |-> "get_chat_restrictions",
       endpoint |-> get_chat_restrictions("xQc").endpoint],
      [name |-> "get_pinned_chat",
       endpoint |-> get_pinned_chat("xQc").endpoint],
      [name |-> "get_channel_goals",
       endpoint |-> get_channel_goals("xQc").endpoint],
      [name |-> "get_channel_leaderboards",
       endpoint |-> get_channel_leaderboards("xQc").endpoint],
      [name |-> "get_stream_tags",
       endpoint |-> get_stream_tags("xQc").endpoint] }

VARIABLES
    self,        \* the instance's attributes
    constructed, \* TRUE once __init__ has returned and the caller holds the client
    ctorKey,     \* the key the client was constructed with
    lastOp,      \* the last public operation called and its arguments
    lastEnv,     \* how the transport behaved during the last call
    lastMR,      \* endpoint and params of the last _make_request invocation
    lastGet,     \* the last GET issued on the session
    mrOutcome,   \* outcome of the last _make_request invocation
    outcome,     \* outcome of the last public operation
    nCalls,      \* calls made on the client
    mrCount,     \* _make_request invocations
    getCount,    \* GETs issued on the session
    calls,       \* per thread: the frame of the call it is executing
    responses    \* the Response object each "response" variable refers to

vars == << self, constructed, ctorKey, lastOp, lastEnv, lastMR, lastGet,
           mrOutcome, outcome, nCalls, mrCount, getCount, calls, responses >>

\* keys a caller may pass to the constructor
Keys == { PyNone, PyStr(""), PyStr("abc123"), PyStr("valid_key") }

\* channel and username arguments
Channels == { "", "xQc" }
Usernames == { "", "bob" }

NoEnv == [get |-> NoExc, status |-> NoExc, json |-> NoBody]
NoCall == [endpoint |-> "", params |-> EmptyDict]
NoGet == [url |-> "", params |-> EmptyDict, headers |-> EmptyDict]

\* threads of the caller that share the one client
Threads == { "t1", "t2" }

\* the frame of a thread that is not inside a call
IdleFrame ==
    [pc |-> "idle", op |-> "none", endpoint |-> "", params |-> EmptyDict,
     url |-> "", env |-> NoEnv, exc |-> NoExc, outcome |-> NoOutcome,
     started |-> 0, failed |-> 0]

\* a "response" variable that is not bound
NoResponse == [status |-> NoExc, json |-> NoBody]

Init ==
    /\ self = NewObject
    /\ constructed = FALSE
    /\ ctorKey = Unset
    /\ lastOp = [name |-> "none", args |-> EmptyDict]
    /\ lastEnv = NoEnv
    /\ lastMR = NoCall
    /\ lastGet = NoGet
    /\ mrOutcome = NoOutcome
    /\ outcome = NoOutcome
    /\ nCalls = 0
    /\ mrCount = 0
    /\ getCount = 0
    /\ calls = [t \in Threads |-> IdleFrame]
    /\ responses = [t \in Threads |-> NoResponse]

\* client = TwitchAPIClient(key)
Construct(key) ==
    /\ ~constructed
    /\ LET r == __init__(key)
       IN /\ self' = r.self
          /\ constructed' = (r.outcome.tag = "return")
          /\ ctorKey' = IF r.outcome.tag = "return" THEN key ELSE Unset
          /\ outcome' = r.outcome
    /\ lastOp' = [name |-> "__init__", args |-> [rapidapi_key |-> key]]
    /\ UNCHANGED << lastEnv, lastMR, lastGet, mrOutcome, nCalls, mrCount,
                    getCount, calls, responses >>

\* one invocation of _make_request on the client, as part of the public
\* operation op (viaWrapper: op is a named wrapper)
Invoke(op, endpoint, params, env, viaWrapper) ==
    /\ constructed
    /\ nCalls < MaxCalls
    /\ LET r == _make_request(self, endpoint, params, env)
       IN /\ self' = r.self
          /\ lastGet' = r.get
          /\ getCount' = getCount + r.gets
          /\ mrOutcome' = r.outcome
          /\ outcome' = IF viaWrapper THEN WrapperResult(r.outcome)
                                     ELSE r.outcome
    /\ lastMR' = [endpoint |-> endpoint, params |-> params]
    /\ lastEnv' = env
    /\ lastOp' = op
    /\ nCalls' = nCalls + 1
    /\ mrCount' = mrCount + 1
    /\ UNCHANGED << constructed, ctorKey, calls, responses >>

\* endpoint names and parameter mappings a caller passes to _make_request
Endpoints == { "test_endpoint", "get_user_id" }
ParamMaps == { EmptyDict, [param |-> "value"] }

\* client._make_request(endpoint, params)
MakeRequest ==
    \E endpoint \in Endpoints, params \in ParamMaps, env \in Envs :
        Invoke([name |-> "_make_request",
                args |-> [endpoint |-> endpoint, params |-> params]],
               endpoint, params, env, FALSE)

\* a wrapper taking a channel, forwarding the call fwd
WrapperCall(name, args, fwd, env) ==
    Invoke([name |-> name, args |-> args], fwd.endpoint, fwd.params, env, TRUE)

\* client.get_channel_panels(channel)
Call_get_channel_panels ==
    \E channel \in Channels, env \in Envs :
        WrapperCall("get_channel_panels", [channel |-> channel], get_channel_panels(channel), env)

\* client.get_viewer_card(channel, username)
Call_get_viewer_card ==
    \E channel \in Channels, username \in Usernames, env \in Envs :
        WrapperCall("get_viewer_card", [channel |-> channel, username |-> username],
                    get_viewer_card(channel, username), env)

\* client.get_streamer_info(channel)
Call_get_streamer_info ==
    \E channel \in Channels, env \in Envs :
        WrapperCall("get_streamer_info", [channel |-> channel], get_streamer_info(channel), env)

\* client.get_channel_videos(channel)
Call_get_channel_videos ==
    \E channel \in Channels, env \in Envs :
        WrapperCall("get_channel_videos", [channel |-> channel], get_channel_videos(channel), env)

\* client.get_stream_viewers(channel)
Call_get_stream_viewers ==
    \E channel \in Channels, env \in Envs :
        WrapperCall("get_stream_viewers", [channel |-> channel], get_stream_viewers(channel), env)

\* client.get_user_id(channel)
Call_get_user_id ==
    \E channel \in Channels, env \in Envs :
        WrapperCall("get_user_id", [channel |-> channel], get_user_id(channel), env)

\* client.get_channel_points_context(channel)
Call_get_channel_points_context ==
    \E channel \in Channels, env \in Envs :
        WrapperCall("get_channel_points_context", [channel |-> channel], get_channel_points_context(channel), env)

\* client.get_chat_restrictions(channel)
Call_get_chat_restrictions ==
    \E channel \in Channels, env \in Envs :
        WrapperCall("get_chat_restrictions", [channel |-> channel], get_chat_restrictions(channel), env)

\* client.get_pinned_chat(channel)
Call_get_pinned_chat ==
    \E channel \in Channels, env \in Envs :
        WrapperCall("get_pinned_chat", [channel |-> channel], get_pinned_chat(channel), env)

\* client.get_channel_goals(channel)
Call_get_channel_goals ==
    \E channel \in Channels, env \in Envs :
        WrapperCall("get_channel_goals", [channel |-> channel], get_channel_goals(channel), env)

\* client.get_channel_leaderboards(channel)
Call_get_channel_leaderboards ==
    \E channel \in Channels, env \in Envs :
        WrapperCall("get_channel_leaderboards", [channel |-> channel], get_channel_leaderboards(channel), env)

\* client.get_stream_tags(channel)
Call_get_stream_tags ==
    \E channel \in Channels, env \in Envs :
        WrapperCall("get_stream_tags", [channel |-> channel], get_stream_tags(channel), env)

Next ==
    \/ \E key \in Keys : Construct(key)
    \/ MakeRequest
    \/ Call_get_channel_panels
    \/ Call_get_viewer_card
    \/ Call_get_streamer_info
    \/ Call_get_channel_videos
    \/ Call_get_stream_viewers
    \/ Call_get_user_id
    \/ Call_get_channel_points_context
    \/ Call_get_chat_restrictions
    \/ Call_get_pinned_chat
    \/ Call_get_channel_goals
    \/ Call_get_channel_leaderboards
    \/ Call_get_stream_tags

Spec == Init /\ [][Next]_vars

(***************************************************************************)
(* Concurrent use: several threads of the caller call the one client, and  *)
(* each call runs _make_request statement by statement.  endpoint, params, *)
(* url and response are locals of the call's own frame; self is shared.    *)
(***************************************************************************)
\* calls each thread makes in one behaviour
MaxThreadCalls == 2

\* the calls the threads make: the generic operation and two wrappers
ThreadOps ==
    { [op |-> "_make_request", endpoint |-> "test_endpoint",
       params |-> [param |-> "value"]],
      [op |-> "get_streamer_info",
       endpoint |-> get_streamer_info("xQc").endpoint,
       params |-> get_streamer_info("xQc").params],
      [op |-> "get_viewer_card",
       endpoint |-> get_viewer_card("xQc", "bob").endpoint,
       params |-> get_viewer_card("xQc", "bob").params] }

\* how the transport answers a thread's request
ThreadEnvs ==
    { e \in Envs :
        \/ e.get.cls = "ConnectionError"
        \/ e.status.cls = "HTTPError" /\ e.json.value = StreamerInfo
                                      /\ e.json.raises = NoExc
        \/ /\ e.get = NoExc
           /\ e.status = NoExc
           /\ \/ e.json.raises.cls = "JSONDecodeError"
              \/ e.json.raises = NoExc
                   /\ e.json.value \in {StreamerInfo, JObj(EmptyDict)} }

\* a "response" variable shared by all calls (kept on the instance)
ResponseVar_Shared(t) == "t1"

\* the variable "response" of the call thread t is executing: a local of that
\* call's frame
ResponseVar(t) == t

\* the client the threads share, constructed before they start
InitThreads ==
    /\ \E key \in { k \in Keys : Truthy(k) } :
          /\ self = __init__(key).self
          /\ ctorKey = key
          /\ lastOp = [name |-> "__init__", args |-> [rapidapi_key |-> key]]
          /\ outcome = __init__(key).outcome
    /\ constructed = TRUE
    /\ lastEnv = NoEnv
    /\ lastMR = NoCall
    /\ lastGet = NoGet
    /\ mrOutcome = NoOutcome
    /\ nCalls = 0
    /\ mrCount = 0
    /\ getCount = 0
    /\ calls = [t \in Threads |-> IdleFrame]
    /\ responses = [t \in Threads |-> NoResponse]

ClientUntouched ==
    UNCHANGED << self, constructed, ctorKey, lastOp, lastEnv, lastMR, lastGet,
                 mrOutcome, outcome, nCalls, mrCount, getCount >>

\* thread t enters _make_request (directly or through a wrapper):
\*   url = f"{self.BASE_URL}/{endpoint}"
T_Call(t) ==
    /\ calls[t].pc \in {"idle", "done"}
    /\ calls[t].started < MaxThreadCalls
    /\ \E c \in ThreadOps, env \in ThreadEnvs :
          calls' = [calls EXCEPT ![t] =
                       [pc |-> "get", op |-> c.op, endpoint |-> c.endpoint,
                        params |-> c.params,
                        url |-> BASE_URL \o "/" \o c.endpoint,
                        env |-> env, exc |-> NoExc, outcome |-> NoOutcome,
                        started |-> calls[t].started + 1,
                        failed |-> calls[t].failed]]
    /\ UNCHANGED responses
    /\ ClientUntouched

\*   response = self.session.get(url, params=params)
T_Get(t) ==
    /\ calls[t].pc = "get"
    /\ IF calls[t].env.get # NoExc
       THEN /\ calls' = [calls EXCEPT ![t].pc = "except",
                                       ![t].exc = calls[t].env.get]
            /\ UNCHANGED responses
       ELSE /\ calls' = [calls EXCEPT ![t].pc = "status"]
            /\ responses' = [responses EXCEPT ![ResponseVar(t)] =
                                [status |-> calls[t].env.status,
                                 json |-> calls[t].env.json]]
    /\ ClientUntouched

\*   response.raise_for_status()
T_Status(t) ==
    /\ calls[t].pc = "status"
    /\ LET response == responses[ResponseVar(t)]
       IN IF response.status # NoExc
          THEN calls' = [calls EXCEPT ![t].pc = "except",
                                      ![t].exc = response.status]
          ELSE calls' = [calls EXCEPT ![t].pc = "json"]
    /\ UNCHANGED responses
    /\ ClientUntouched

\*   return response.json()
T_Json(t) ==
    /\ calls[t].pc = "json"
    /\ LET response == responses[ResponseVar(t)]
       IN IF response.json.raises # NoExc
          THEN /\ calls' = [calls EXCEPT ![t].pc = "except",
                                          ![t].exc = response.json.raises]
               /\ UNCHANGED responses
          ELSE /\ calls' = [calls EXCEPT ![t].pc = "done",
                                          ![t].outcome =
                                              Return(response.json.value)]
               /\ responses' = [responses EXCEPT ![ResponseVar(t)] = NoResponse]
    /\ ClientUntouched

\* the except clauses, for the exception the try block raised
T_Except(t) ==
    /\ calls[t].pc = "except"
    /\ calls' = [calls EXCEPT ![t].pc = "done",
                              ![t].outcome = Handlers(Raise(calls[t].exc)),
                              ![t].exc = NoExc,
                              ![t].failed = calls[t].failed + 1]
    /\ responses' = [responses EXCEPT ![ResponseVar(t)] = NoResponse]
    /\ ClientUntouched

NextThreads ==
    \E t \in Threads :
        \/ T_Call(t)
        \/ T_Get(t)
        \/ T_Status(t)
        \/ T_Json(t)
        \/ T_Except(t)

SpecThreads == InitThreads /\ [][NextThreads]_vars

(***************************************************************************)
(* Properties                                                              *)
(***************************************************************************)
WrapperNames ==
    { "get_channel_panels", "get_viewer_card", "get_streamer_info",
      "get_channel_videos", "get_stream_viewers", "get_user_id",
      "get_channel_points_context", "get_chat_restrictions",
      "get_pinned_chat", "get_channel_goals", "get_channel_leaderboards",
      "get_stream_tags" }

\* the last operation was a call whose exchange had a success status and a
\* body the decoder rejected with a json.JSONDecodeError
DecodeFailed ==
    /\ nCalls > 0
    /\ lastEnv.get = NoExc
    /\ lastEnv.status = NoExc
    /\ IsJSONDecodeError(lastEnv.json.raises)

\* the last operation was a call whose response had an error status:
\* raise_for_status raised HTTPError
StatusFailed ==
    /\ nCalls > 0
    /\ lastEnv.get = NoExc
    /\ lastEnv.status.cls = "HTTPError"

\* the last operation was a call whose exchange succeeded with a decodable
\* body
Succeeded ==
    /\ nCalls > 0
    /\ lastEnv.get = NoExc
    /\ lastEnv.status = NoExc
    /\ lastEnv.json.raises = NoExc

\* the error kind _make_request signals for a connection-level failure
RequestFailedKind ==
    Handlers(Raise(Exc("ConnectionError", "Connection refused"))).exc.cls

C2_ErrorStatusNeverReturns ==
    StatusFailed =>
        /\ mrOutcome.tag # "return"
        /\ mrOutcome =
             Raise(TwitchAPIError("API request failed: " \o lastEnv.status.msg))

C2_Witness ==
    /\ StatusFailed
    /\ lastEnv.json = [raises |-> NoExc, value |-> StreamerInfo]
    /\ mrOutcome.tag = "raise"

\* C3: whenever raise_for_status raises an error, _make_request raises
\* TwitchAPIError.
C3_StatusErrorIsTwitchAPIError ==
    (nCalls > 0 /\ lastEnv.get = NoExc /\ lastEnv.status # NoExc) =>
        /\ mrOutcome.tag = "raise"
        /\ mrOutcome.exc.cls = "TwitchAPIError"

\* C4: after a successful exchange whose body decodes to B, _make_request
\* and the wrapper built on it return exactly B, falsy values included.
C4_PayloadUnchanged ==
    Succeeded =>
        /\ mrOutcome = Return(lastEnv.json.value)
        /\ outcome = Return(lastEnv.json.value)

C4_Witness ==
    /\ Succeeded
    /\ lastOp.name = "get_streamer_info"
    /\ lastEnv.json.value = JObj(EmptyDict)
    /\ outcome = Return(JObj(EmptyDict))

\* C5: construction with an empty or None key fails with ValueError, leaves
\* every attribute of the instance unassigned, hands no client to the caller
\* and no request is issued.
C5_FalsyKeyNoClient ==
    (lastOp.name = "__init__" /\ ~Truthy(lastOp.args.rapidapi_key)) =>
        /\ outcome.tag = "raise"
        /\ outcome.exc.cls = "ValueError"
        /\ self = NewObject
        /\ ~constructed
        /\ nCalls = 0
        /\ getCount = 0

C5_Witness ==
    /\ lastOp = [name |-> "__init__", args |-> [rapidapi_key |-> PyStr("")]]
    /\ outcome.tag = "raise"
    /\ ~constructed

\* C6: construction with a non-empty key string succeeds, stores the key and
\* builds a header set of exactly X-RapidAPI-Key = key and
\* X-RapidAPI-Host = "twitch-api8.p.rapidapi.com".
C6_HeadersFromKey ==
    (lastOp.name = "__init__" /\ Truthy(lastOp.args.rapidapi_key)) =>
        /\ outcome.tag = "return"
        /\ constructed
        /\ self.rapidapi_key = lastOp.args.rapidapi_key
        /\ DOMAIN self.headers = {"X-RapidAPI-Key", "X-RapidAPI-Host"}
        /\ self.headers["X-RapidAPI-Key"] = lastOp.args.rapidapi_key
        /\ self.headers["X-RapidAPI-Host"] = PyStr("twitch-api8.p.rapidapi.com")

C6_Witness ==
    /\ lastOp = [name |-> "__init__", args |-> [rapidapi_key |-> PyStr("valid_key")]]
    /\ constructed
    /\ self.rapidapi_key = PyStr("valid_key")

\* C7: a wrapper call invokes _make_request exactly once, with the wrapper's
\* own name as endpoint and a parameter mapping of exactly the caller's
\* channel (and username for get_viewer_card), values unchanged, the empty
\* channel included.
C7_WrapperForwards ==
    /\ mrCount = nCalls
    /\ lastOp.name \in WrapperNames =>
        /\ lastMR.endpoint = lastOp.name
        /\ DOMAIN lastMR.params =
             IF lastOp.name = "get_viewer_card"
             THEN {"channel", "username"} ELSE {"channel"}
        /\ \A k \in DOMAIN lastMR.params : lastMR.params[k] = lastOp.args[k]

C7_Witness ==
    /\ lastOp = [name |-> "get_stream_tags", args |-> [channel |-> ""]]
    /\ lastMR = [endpoint |-> "get_stream_tags", params |-> [channel |-> ""]]

\* C8: the outcome of a wrapper call is the outcome of the _make_request
\* call it forwards to, value or error alike.
C8_WrapperOutcome ==
    lastOp.name \in WrapperNames => outcome = mrOutcome

C8_Witness ==
    /\ lastOp.name \in WrapperNames
    /\ mrOutcome.tag = "raise"
    /\ outcome = mrOutcome

\* C9: every _make_request call issues exactly one GET, failed or not, so
\* after n calls n GETs have been issued, and construction issues none.
C9_OneGetPerCall ==
    /\ getCount = mrCount
    /\ getCount = nCalls

C9_Witness ==
    /\ nCalls >= 2
    /\ getCount = nCalls
    /\ lastEnv.get # NoExc
    /\ mrOutcome.tag = "raise"

\* C10: once the client is constructed no operation changes its key, its
\* header set or the headers attached to its session.
C10_ConfigImmutable ==
    [][constructed => (self' = self /\ ctorKey' = ctorKey)]_vars

C10_Witness ==
    /\ constructed
    /\ nCalls >= 2
    /\ self.rapidapi_key = ctorKey
    /\ self.session.headers["X-RapidAPI-Key"] = ctorKey
    /\ lastMR.params # EmptyDict

\* the last operation was a call whose exchange failed: the transport raised,
\* the status check raised, or the body could not be decoded
ExchangeFailed ==
    /\ nCalls > 0
    /\ \/ lastEnv.get # NoExc
       \/ lastEnv.status # NoExc
       \/ lastEnv.json.raises # NoExc

\* C12: whenever the exchange of a call fails, _make_request and the
\* operation built on it end by raising an error and return no value.
C12_FailureAlwaysRaised ==
    ExchangeFailed =>
        /\ mrOutcome.tag = "raise"
        /\ outcome.tag = "raise"

C12_Witness ==
    /\ ExchangeFailed
    /\ lastEnv.json.raises.cls = "JSONDecodeError"
    /\ lastEnv.status = NoExc
    /\ lastOp.name = "get_user_id"
    /\ outcome.tag = "raise"

\* C13: when session.get raises a connection-level failure, _make_request
\* raises TwitchAPIError whose message is "API request failed: " followed by
\* the text of the cause.
C13_ConnectionFailureMessage ==
    (nCalls > 0 /\ lastEnv.get # NoExc) =>
        mrOutcome =
            Raise(TwitchAPIError("API request failed: " \o lastEnv.get.msg))

C13_Witness ==
    /\ nCalls > 0
    /\ lastEnv.get = Exc("ConnectionError", "Connection refused")
    /\ mrOutcome.tag = "raise"
    /\ mrOutcome.exc.msg = "API request failed: Connection refused"

\* C14 as stated: a constructed client has exactly eleven named wrappers, each bound
\* to one distinct endpoint name.
C14_ElevenWrappers ==
    constructed =>
        /\ Cardinality(Wrappers) = 11
        /\ Cardinality({ w.endpoint : w \in Wrappers }) = Cardinality(Wrappers)

\* C14 amended: a constructed client has exactly twelve named wrappers, each bound to
\* one distinct endpoint name, and every wrapper call goes to the endpoint
\* its wrapper is bound to.
C14_TwelveWrappers ==
    constructed =>
        /\ Cardinality(Wrappers) = 12
        /\ Cardinality({ w.endpoint : w \in Wrappers }) = 12
        /\ (nCalls > 0 /\ lastOp.name # "_make_request") =>
               \E w \in Wrappers :
                   /\ w.name = lastOp.name
                   /\ w.endpoint = lastMR.endpoint

C14_Witness ==
    /\ nCalls > 0
    /\ lastOp.name = "get_pinned_chat"
    /\ lastMR.endpoint = "get_pinned_chat"
    /\ Cardinality(Wrappers) = 12

\* C15: every GET goes to the base endpoint, one "/" and the endpoint name,
\* carries the caller's parameter mapping unchanged, and is sent through the
\* session holding the two auth headers, X-RapidAPI-Key being the key given
\* at construction.
C15_GetTarget ==
    nCalls > 0 =>
        /\ lastGet.url =
             "https://twitch-api8.p.rapidapi.com" \o "/" \o lastMR.endpoint
        /\ lastGet.params = lastMR.params
        /\ {"X-RapidAPI-Key", "X-RapidAPI-Host"} \subseteq DOMAIN lastGet.headers
        /\ lastGet.headers["X-RapidAPI-Key"] = ctorKey
        /\ lastGet.headers["X-RapidAPI-Host"] =
             PyStr("twitch-api8.p.rapidapi.com")
        /\ lastOp.name \in WrapperNames => lastGet.params = lastOp.args

C15_Witness ==
    /\ nCalls > 0
    /\ lastOp.name = "get_viewer_card"
    /\ lastGet.url = "https://twitch-api8.p.rapidapi.com/get_viewer_card"
    /\ lastGet.params = [channel |-> "xQc", username |-> "bob"]
    /\ lastGet.headers["X-RapidAPI-Key"] = PyStr("abc123")

\* the last call got a response with a success status whose body the decoder
\* rejected
DecodeRaised ==
    /\ nCalls > 0
    /\ lastEnv.get = NoExc
    /\ lastEnv.status = NoExc
    /\ lastEnv.json.raises # NoExc

\* C16: a decode error that is both a RequestException and a JSON decode
\* error is reported with the request-failed message, and the decode-failed
\* message is produced only for a JSON decode error that is not a
\* RequestException.
C16_RequestHandlerFirst ==
    /\ (/\ DecodeRaised
        /\ IsRequestException(lastEnv.json.raises)
        /\ IsJSONDecodeError(lastEnv.json.raises)) =>
           mrOutcome = Raise(TwitchAPIError("API request failed: "
                                              \o lastEnv.json.raises.msg))
    /\ (/\ nCalls > 0
        /\ mrOutcome = Raise(TwitchAPIError("Failed to decode API response"))) =>
           /\ DecodeRaised
           /\ IsJSONDecodeError(lastEnv.json.raises)
           /\ ~IsRequestException(lastEnv.json.raises)

C16_Witness ==
    /\ DecodeRaised
    /\ lastEnv.json.raises.cls = "RequestsJSONDecodeError"
    /\ mrOutcome.tag = "raise"
    /\ mrOutcome.exc.cls = "TwitchAPIError"
    /\ mrOutcome.exc.msg # "Failed to decode API response"

\* C11: under any interleaving of the threads' calls, and after failed
\* calls, every finished call has the outcome _make_request gives for its own
\* endpoint, parameters and transport response alone, and the client's
\* configuration is the one set at construction.
C11_CallsIndependent ==
    /\ self = __init__(ctorKey).self
    /\ \A t \in Threads :
          calls[t].pc = "done" =>
              calls[t].outcome =
                  _make_request(__init__(ctorKey).self, calls[t].endpoint,
                                calls[t].params, calls[t].env).outcome

\* a thread has finished a successful call after a failed one, while the
\* other thread's call, whose response has an error status, is in flight
C11_Witness ==
    /\ calls["t1"].pc = "done"
    /\ calls["t1"].failed >= 1
    /\ calls["t1"].outcome = Return(StreamerInfo)
    /\ calls["t2"].pc = "status"
    /\ calls["t2"].env.status.cls = "HTTPError"

====
